---- MODULE Spec2Model ----
(***************************************************************************)
(* Model of the demo language server (server.js): the open-document store, *)
(* the process-wide symbolTable, published diagnostics, and the hover /    *)
(* definition / references / rename / completion handlers.  Text is a     *)
(* sequence of one-character strings (UTF-16 code units, all ASCII here); *)
(* positions are 0-based as in the source.                                *)
(***************************************************************************)
EXTENDS Integers, Sequences, FiniteSets, TLC

\* ---------------------------------------------------------------------
\* Character classes
Letters == {"a", "b", "c", "d", "e", "f", "g", "h", "i", "j", "k", "l", "m", "n", "o", "p", "q", "r", "s", "t", "u", "v", "w", "x", "y", "z", "A", "B", "C", "D", "E", "F", "G", "H", "I", "J", "K", "L", "M", "N", "O", "P", "Q", "R", "S", "T", "U", "V", "W", "X", "Y", "Z"}

Digits == {"0", "1", "2", "3", "4", "5", "6", "7", "8", "9"}

\* \w of JS regular expressions (used by \b)
WordChars == Letters \cup Digits \cup {"_"}

\* the class [a-zA-Z0-9_$]
IdentChars == WordChars \cup {"$"}

\* U+000B (vertical tab); TLA+ strings have no escape for it, so the token
\* "\\v" stands for that single code unit
VT == "\\v"

\* \s of JS regular expressions, restricted to ASCII:
\* space, \t, \n, \v, \f, \r
SpaceChars == {" ", "\t", "\r", "\n", VT, "\f"}

\* 0-based character access, as lineText[i]
At(s, i) == s[i + 1]

\* ---------------------------------------------------------------------
\* text.split(/\r?\n/g): a "\n" ends a line; one "\r" right before it is
\* part of the separator; a "\r" not followed by "\n" stays in the line.
StripCR(cur) ==
  IF Len(cur) > 0 /\ cur[Len(cur)] = "\r" THEN SubSeq(cur, 1, Len(cur) - 1) ELSE cur

\* 1-based positions of the "\n" characters, in increasing order
Breaks(s) ==
  LET idx == {i \in 1..Len(s) : s[i] = "\n"}
  IN [k \in 1..Cardinality(idx) |->
        CHOOSE i \in idx : Cardinality({j \in idx : j < i}) = k - 1]

\* piece k lies between break k-1 and break k; all but the last piece are
\* followed by "\n", so a "\r" ending them belongs to the separator
SplitLines(text) ==
  LET b == Breaks(text)
      n == Len(b) + 1
      from(k) == IF k = 1 THEN 1 ELSE b[k - 1] + 1
      to(k) == IF k = n THEN Len(text) ELSE b[k] - 1
  IN [k \in 1..n |->
        IF k < n THEN StripCR(SubSeq(text, from(k), to(k)))
        ELSE SubSeq(text, from(k), to(k))]

\* indexOf replaced by lastIndexOf
IndexOfLast(s, w) ==
  LET occ == {k \in 0..(Len(s) - Len(w)) : SubSeq(s, k + 1, k + Len(w)) = w}
  IN IF occ = {} THEN -1 ELSE CHOOSE k \in occ : \A k2 \in occ : k2 <= k

\* String.prototype.indexOf(w): first k with s[k..k+|w|) = w, else -1
RECURSIVE IndexFrom(_, _, _)
IndexFrom(s, w, k) ==
  IF k + Len(w) > Len(s) THEN -1
  ELSE IF SubSeq(s, k + 1, k + Len(w)) = w THEN k
  ELSE IndexFrom(s, w, k + 1)

IndexOf(s, w) == IndexFrom(s, w, 0)

\* ---------------------------------------------------------------------
\* The declaration regexes
\*   varRegex  = /\b(?:let|const)\s+([a-zA-Z0-9_$]+)\s*=/
\*   funcRegex = /\bfunction\s+([a-zA-Z0-9_$]+)\s*\(/
\* line.match(re) returns the leftmost match.  At a fixed start the match
\* is unique: \s+ must stop where the identifier class begins (the class
\* contains no space), the identifier must run until a non-identifier
\* character (a shorter capture would leave an identifier character where
\* \s* or the terminator is needed), so backtracking finds nothing else.
RECURSIVE SkipSpaces(_, _)
SkipSpaces(s, i) ==
  IF i < Len(s) /\ At(s, i) \in SpaceChars THEN SkipSpaces(s, i + 1) ELSE i

RECURSIVE SkipIdent(_, _)
SkipIdent(s, i) ==
  IF i < Len(s) /\ At(s, i) \in IdentChars THEN SkipIdent(s, i + 1) ELSE i

KeywordAt(s, p, kw) ==
  /\ p + Len(kw) <= Len(s)
  /\ \A j \in 0..(Len(kw) - 1) : At(s, p + j) = kw[j + 1]

\* \b before a keyword (whose first character is in \w)
BoundaryBefore(s, p) == p = 0 \/ At(s, p - 1) \notin WordChars

\* capture group 1 of a match starting at p with keyword kw, or <<>>
DeclMatchAt(s, p, kw, term) ==
  IF BoundaryBefore(s, p) /\ KeywordAt(s, p, kw)
  THEN LET q == p + Len(kw)
           q2 == SkipSpaces(s, q)
           r == SkipIdent(s, q2)
           e == SkipSpaces(s, r)
       IN IF q2 > q /\ r > q2 /\ e < Len(s) /\ At(s, e) = term
          THEN SubSeq(s, q2 + 1, r) ELSE <<>>
  ELSE <<>>

\* the alternation (?:k1|k2|...) tried in order at p
RECURSIVE AltMatchAt(_, _, _, _, _)
AltMatchAt(s, p, kws, j, term) ==
  IF j > Len(kws) THEN <<>>
  ELSE LET m == DeclMatchAt(s, p, kws[j], term)
       IN IF m # <<>> THEN m ELSE AltMatchAt(s, p, kws, j + 1, term)

RECURSIVE FirstMatch(_, _, _, _)
FirstMatch(s, p, kws, term) ==
  IF p >= Len(s) THEN <<>>
  ELSE LET m == AltMatchAt(s, p, kws, 1, term)
       IN IF m # <<>> THEN m ELSE FirstMatch(s, p + 1, kws, term)

VarKeywords == << <<"l", "e", "t">>, <<"c", "o", "n", "s", "t">> >>

FuncKeywords == << <<"f", "u", "n", "c", "t", "i", "o", "n">> >>

\* a varRegex that forgets the const alternative
VarMatchLetOnly(line) == FirstMatch(line, 0, <<VarKeywords[1]>>, "=")

VarMatch(line) == FirstMatch(line, 0, VarKeywords, "=")

FuncMatch(line) == FirstMatch(line, 0, FuncKeywords, "(")

\* ---------------------------------------------------------------------
\* parseDocumentSymbols
MkSymbol(name, line, i, type, uri) ==
  LET startChar == IndexOf(line, name)
      endChar == startChar + Len(name)
  IN [name |-> name,
      range |-> [start |-> [line |-> i, character |-> startChar],
                 end |-> [line |-> i, character |-> endChar]],
      type |-> type,
      docUri |-> uri]

LineSymbols(uri, line, i) ==
  LET vm == VarMatch(line)
      fm == FuncMatch(line)
  IN (IF vm # <<>> THEN <<MkSymbol(vm, line, i, "variable", uri)>> ELSE <<>>)
     \o (IF fm # <<>> THEN <<MkSymbol(fm, line, i, "function", uri)>> ELSE <<>>)

RECURSIVE ParseLines(_, _, _, _)
ParseLines(uri, lines, i, acc) ==
  IF i = Len(lines) THEN acc
  ELSE ParseLines(uri, lines, i + 1, acc \o LineSymbols(uri, lines[i + 1], i))

ParseDocumentSymbols(uri, text) == ParseLines(uri, SplitLines(text), 0, <<>>)

\* ---------------------------------------------------------------------
\* validateTextDocument
MaxLineLength == 80

\* `>=` instead of `>` on the line length
RECURSIVE DiagLinesAtLimit(_, _, _)
DiagLinesAtLimit(lines, i, acc) ==
  IF i = Len(lines) THEN acc
  ELSE DiagLinesAtLimit(lines, i + 1,
         IF Len(lines[i + 1]) >= MaxLineLength
         THEN Append(acc, [severity |-> 2,
                           range |-> [start |-> [line |-> i, character |-> MaxLineLength],
                                      end |-> [line |-> i, character |-> Len(lines[i + 1])]],
                           message |-> "Line exceeds 80 characters.",
                           source |-> "demo-lsp"])
         ELSE acc)

RECURSIVE DiagLines(_, _, _)
DiagLines(lines, i, acc) ==
  IF i = Len(lines) THEN acc
  ELSE DiagLines(lines, i + 1,
         IF Len(lines[i + 1]) > MaxLineLength
         THEN Append(acc, [severity |-> 2,
                           range |-> [start |-> [line |-> i, character |-> MaxLineLength],
                                      end |-> [line |-> i, character |-> Len(lines[i + 1])]],
                           message |-> "Line exceeds 80 characters.",
                           source |-> "demo-lsp"])
         ELSE acc)

ValidateTextDocument(text) == DiagLines(SplitLines(text), 0, <<>>)

\* ---------------------------------------------------------------------
\* getWordAtPosition.  Results: [kind |-> "null"], [kind |-> "word", w |-> s]
\* or [kind |-> "throw"] (a TypeError escapes the function).
Null == [kind |-> "null"]

Throw == [kind |-> "throw"]

Word(w) == [kind |-> "word", w |-> w]

\* /[a-zA-Z0-9_$]/.test(lineText[k]): outside the string lineText[k] is
\* undefined, which test() converts to the string "undefined" and matches.
IdentTest(lt, k) == IF k < 0 \/ k >= Len(lt) THEN TRUE ELSE At(lt, k) \in IdentChars

\* left scan that stops one column early (start > 1)
RECURSIVE ScanLeftOff(_, _)
ScanLeftOff(lt, start) ==
  IF start > 1 /\ IdentTest(lt, start - 1) THEN ScanLeftOff(lt, start - 1) ELSE start

RECURSIVE ScanLeft(_, _)
ScanLeft(lt, start) ==
  IF start > 0 /\ IdentTest(lt, start - 1) THEN ScanLeft(lt, start - 1) ELSE start

RECURSIVE ScanRight(_, _)
ScanRight(lt, end) ==
  IF end < Len(lt) /\ IdentTest(lt, end) THEN ScanRight(lt, end + 1) ELSE end

\* String.prototype.substring: negative arguments clamp to 0, swapped if a > b
Substring(s, a, b) ==
  LET a1 == IF a < 0 THEN 0 ELSE IF a > Len(s) THEN Len(s) ELSE a
      b1 == IF b < 0 THEN 0 ELSE IF b > Len(s) THEN Len(s) ELSE b
      lo == IF a1 <= b1 THEN a1 ELSE b1
      hi == IF a1 <= b1 THEN b1 ELSE a1
  IN SubSeq(s, lo + 1, hi)

GetWordAtPosition(text, line, character) ==
  LET lines == SplitLines(text)
  IN IF line >= Len(lines) THEN Null
     \* lines[line] is undefined for a negative line: .length throws
     ELSE IF line < 0 THEN Throw
     ELSE LET lineText == lines[line + 1]
          IN IF character >= Len(lineText) THEN Null
             ELSE Word(Substring(lineText, ScanLeft(lineText, character),
                                 ScanRight(lineText, character)))

\* `!word`: null and "" are falsy
Truthy(r) == r.kind = "word" /\ Len(r.w) > 0

\* ---------------------------------------------------------------------
\* State
URIs == {"u1", "u2"}

\* JS object / Map operations on functions whose domain is the set of keys
Put(f, k, v) == [x \in DOMAIN f \cup {k} |-> IF x = k THEN v ELSE f[x]]

Remove(f, k) == [x \in DOMAIN f \ {k} |-> f[x]]

EmptyMap == [x \in {} |-> <<>>]


NoResponse == [op |-> "none"]

\* ---------------------------------------------------------------------
\* symbolTable is a plain object ({}): a key it does not own is looked up
\* on its prototype.  Assigning to "__proto__" replaces the prototype.
ObjectPrototype == [proto |-> "Object.prototype"]

\* an Array (of symbols) installed as the prototype
ArrayPrototype(a) == [proto |-> "Array", elems |-> a]

ObjectProtoMembers ==
  {"constructor", "hasOwnProperty", "isPrototypeOf", "propertyIsEnumerable",
   "toLocaleString", "toString", "valueOf", "__defineGetter__",
   "__defineSetter__", "__lookupGetter__", "__lookupSetter__"}

ArrayProtoMembers ==
  {"at", "concat", "copyWithin", "entries", "every", "fill", "filter", "find",
   "findIndex", "findLast", "findLastIndex", "flat", "flatMap", "forEach",
   "includes", "indexOf", "join", "keys", "lastIndexOf", "map", "pop", "push",
   "reduce", "reduceRight", "reverse", "shift", "slice", "some", "sort",
   "splice", "toReversed", "toSorted", "toSpliced", "unshift", "values", "with"}

DecimalDigits == <<"0", "1", "2", "3", "4", "5", "6", "7", "8", "9">>

\* String(i): the property name of array element i (canonical decimal)
RECURSIVE IndexKey(_)
IndexKey(i) ==
  IF i < 10 THEN DecimalDigits[i + 1]
  ELSE IndexKey(i \div 10) \o DecimalDigits[(i % 10) + 1]

\* JS values a lookup can produce
JSArray(a) == [t |-> "array", v |-> a]

JSUndefined == [t |-> "undefined"]

JSFunction == [t |-> "function"]

JSObject == [t |-> "object"]

JSNumber(n) == [t |-> "number", v |-> n]

VARIABLES docs,        \* documents: open uri -> current text
          version,     \* documents: open uri -> TextDocument.version
          symbolTable, \* symbolTable: own keys -> Array of symbols
          tableProto,  \* prototype of symbolTable: ObjectPrototype or an Array
          published,   \* last diagnostics sent per uri
          response     \* the response to the latest request

vars == <<docs, version, symbolTable, tableProto, published, response>>

\* the prototype is still Object.prototype (not an Array put there)
ProtoIsObject == tableProto.proto = "Object.prototype"

\* symbolTable[uri]
TableGet(uri) ==
  IF uri \in DOMAIN symbolTable THEN JSArray(symbolTable[uri])
  ELSE IF uri = "__proto__"
       THEN IF ProtoIsObject THEN JSObject ELSE JSArray(tableProto.elems)
  ELSE IF ProtoIsObject
       THEN IF uri \in ObjectProtoMembers THEN JSFunction ELSE JSUndefined
  \* the prototype is an Array of symbols
  ELSE IF \E i \in 0..(Len(tableProto.elems) - 1) : uri = IndexKey(i)
       THEN JSObject
  ELSE IF uri = "length" THEN JSNumber(Len(tableProto.elems))
  ELSE IF uri \in ArrayProtoMembers \cup ObjectProtoMembers THEN JSFunction
  ELSE JSUndefined

\* symbolTable[uri] = syms (parseDocumentSymbols resets the entry, then
\* pushes onto whatever symbolTable[uri] then denotes)
StoreSymbols(uri, syms) ==
  IF uri = "__proto__"
  THEN /\ tableProto' = ArrayPrototype(syms)
       /\ UNCHANGED symbolTable
  ELSE /\ symbolTable' = Put(symbolTable, uri, syms)
       /\ UNCHANGED tableProto

\* documents.get(uri) is defined
IsOpen(u) == u \in DOMAIN docs

\* ---------------------------------------------------------------------
\* Handlers
\* end bound treated as exclusive
IsPositionInRangeExclusiveEnd(line, character, range) ==
  IF line < range.start.line \/ line > range.end.line THEN FALSE
  ELSE IF line = range.start.line /\ character < range.start.character THEN FALSE
  ELSE IF line = range.end.line /\ character >= range.end.character THEN FALSE
  ELSE TRUE

IsPositionInRange(line, character, range) ==
  IF line < range.start.line \/ line > range.end.line THEN FALSE
  ELSE IF line = range.start.line /\ character < range.start.character THEN FALSE
  ELSE IF line = range.end.line /\ character > range.end.character THEN FALSE
  ELSE TRUE

\* symbolTable[uri] || []  (undefined and 0 are falsy)
DocSymbols(uri) ==
  LET g == TableGet(uri)
  IN IF g.t = "undefined" \/ (g.t = "number" /\ g.v = 0) THEN JSArray(<<>>) ELSE g

RECURSIVE HoverScan(_, _, _, _)
HoverScan(syms, j, line, character) ==
  IF j > Len(syms) THEN Null
  ELSE IF IsPositionInRange(line, character, syms[j].range)
       THEN [kind |-> "hover", name |-> syms[j].name, type |-> syms[j].type]
       ELSE HoverScan(syms, j + 1, line, character)

\* for..of over a value that is not an Array throws a TypeError
HandleHover(uri, line, character) ==
  IF DocSymbols(uri).t # "array" THEN Throw
  ELSE HoverScan(DocSymbols(uri).v, 1, line, character)

\* findLast instead of find
RECURSIVE FindByNameLast(_, _, _)
FindByNameLast(syms, j, word) ==
  IF j > Len(syms) THEN Null
  ELSE LET rest == FindByNameLast(syms, j + 1, word)
       IN IF rest # Null THEN rest
          ELSE IF syms[j].name = word
               THEN [kind |-> "location", uri |-> syms[j].docUri, range |-> syms[j].range]
               ELSE Null

\* Array.prototype.find(sym => sym.name === word)
RECURSIVE FindByName(_, _, _)
FindByName(syms, j, word) ==
  IF j > Len(syms) THEN Null
  ELSE IF syms[j].name = word
       THEN [kind |-> "location", uri |-> syms[j].docUri, range |-> syms[j].range]
       ELSE FindByName(syms, j + 1, word)

HandleDefinition(uri, line, character) ==
  IF ~IsOpen(uri) THEN Null
  ELSE LET word == GetWordAtPosition(docs[uri], line, character)
       IN IF word = Throw THEN Throw
          ELSE IF ~Truthy(word) THEN Null
          \* docSymbols.find is not a function unless docSymbols is an Array
          ELSE IF DocSymbols(uri).t # "array" THEN Throw
          ELSE FindByName(DocSymbols(uri).v, 1, word.w)

\* `idx > 0` instead of `idx !== -1`: misses a word at column 0
RECURSIVE RefLinesPositive(_, _, _, _, _)
RefLinesPositive(uri, lines, i, word, acc) ==
  IF i = Len(lines) THEN acc
  ELSE LET idx == IndexOf(lines[i + 1], word)
       IN RefLinesPositive(uri, lines, i + 1, word,
            IF idx > 0
            THEN Append(acc, [uri |-> uri,
                              range |-> [start |-> [line |-> i, character |-> idx],
                                         end |-> [line |-> i, character |-> idx + Len(word)]]])
            ELSE acc)

RECURSIVE RefLines(_, _, _, _, _)
RefLines(uri, lines, i, word, acc) ==
  IF i = Len(lines) THEN acc
  ELSE LET idx == IndexOf(lines[i + 1], word)
       IN RefLines(uri, lines, i + 1, word,
            IF idx # -1
            THEN Append(acc, [uri |-> uri,
                              range |-> [start |-> [line |-> i, character |-> idx],
                                         end |-> [line |-> i, character |-> idx + Len(word)]]])
            ELSE acc)

Locations(locs) == [kind |-> "locations", locs |-> locs]

\* `word === null` instead of `!word`: lets "" through
HandleReferencesNullOnly(uri, line, character) ==
  IF ~IsOpen(uri) THEN Locations(<<>>)
  ELSE LET word == GetWordAtPosition(docs[uri], line, character)
       IN IF word = Throw THEN Throw
          ELSE IF word = Null THEN Locations(<<>>)
          ELSE Locations(RefLines(uri, SplitLines(docs[uri]), 0, word.w, <<>>))

HandleReferences(uri, line, character) ==
  IF ~IsOpen(uri) THEN Locations(<<>>)
  ELSE LET word == GetWordAtPosition(docs[uri], line, character)
       IN IF word = Throw THEN Throw
          ELSE IF ~Truthy(word) THEN Locations(<<>>)
          ELSE Locations(RefLines(uri, SplitLines(docs[uri]), 0, word.w, <<>>))

\* `idx > 0` instead of `idx !== -1`
RECURSIVE RenameLinesPositive(_, _, _, _, _)
RenameLinesPositive(lines, i, oldName, newName, acc) ==
  IF i = Len(lines) THEN acc
  ELSE LET idx == IndexOf(lines[i + 1], oldName)
       IN RenameLinesPositive(lines, i + 1, oldName, newName,
            IF idx > 0
            THEN Append(acc, [range |-> [start |-> [line |-> i, character |-> idx],
                                         end |-> [line |-> i, character |-> idx + Len(oldName)]],
                              newText |-> newName])
            ELSE acc)

RECURSIVE RenameLines(_, _, _, _, _)
RenameLines(lines, i, oldName, newName, acc) ==
  IF i = Len(lines) THEN acc
  ELSE LET idx == IndexOf(lines[i + 1], oldName)
       IN RenameLines(lines, i + 1, oldName, newName,
            IF idx # -1
            THEN Append(acc, [range |-> [start |-> [line |-> i, character |-> idx],
                                         end |-> [line |-> i, character |-> idx + Len(oldName)]],
                              newText |-> newName])
            ELSE acc)

\* newName: params.newName; <<>> stands for a missing or empty name
HandleRenameRequest(uri, line, character, newName) ==
  IF ~IsOpen(uri) THEN Null
  ELSE LET oldName == GetWordAtPosition(docs[uri], line, character)
       IN IF oldName = Throw THEN Throw
          ELSE IF ~Truthy(oldName) \/ Len(newName) = 0 THEN Null
          ELSE [kind |-> "edit", changes |-> [uri |-> uri,
                  edits |-> RenameLines(SplitLines(docs[uri]), 0, oldName.w, newName, <<>>)]]

CompletionItems == << [label |-> "HelloWorld", kind |-> 1], [label |-> "Print", kind |-> 3] >>

\* ---------------------------------------------------------------------
\* Document texts the editor may send
LineLet == <<"l", "e", "t", " ", "a", "=", "1">>

LineFunc == <<"f", "u", "n", "c", "t", "i", "o", "n", " ", "f", "(", "a", ")">>

LineDup == <<"a", ";", "l", "e", "t", " ", "a", "=", "a">>

LineTwoLets == <<"l", "e", "t", " ", "a", "=", "l", "e", "t", " ", "b", "=">>

LineBoth == <<"l", "e", "t", " ", "g", "=", "f", "u", "n", "c", "t", "i", "o", "n", " ", "h", "(">>

LineUse == <<"f", "(", "a", ")">>

\* "let f=function f(": a variable and a function symbol, both at [4, 5]
LineSame == <<"l", "e", "t", " ", "f", "=", "f", "u", "n", "c", "t", "i", "o", "n", " ", "f", "(">>

LineNoBoundary == <<"x", "l", "e", "t", " ", "a", "=">>

LineConst == <<"c", "o", "n", "s", "t", " ", " ", "b", "b", " ", "=", "2">>

ExampleVar == <<"l", "e", "t", " ", "m", "y", "V", "a", "r", " ", "=", " ", "1", "0", ";">>

ExampleProgram == <<"l", "e", "t", " ", "m", "y", "V", "a", "r", " ", "=", " ", "1", "0", ";", "\n", "f", "u", "n", "c", "t", "i", "o", "n", " ", "m", "y", "F", "u", "n", "c", "(", ")", " ", "{", "\n", " ", " ", "c", "o", "n", "s", "o", "l", "e", ".", "l", "o", "g", "(", "m", "y", "V", "a", "r", ")", ";", "\n", "}">>

LF == <<"\n">>

CRLF == <<"\r", "\n">>

CR == <<"\r">>

\* c repeated n times
Repeat(c, n) == [k \in 1..n |-> c]

Join(a, sep, b) == a \o sep \o b

\* lines of length 85, 80 (LF) and 81 (CRLF): around the 80-character limit
LongText == Join(Join(Repeat("a", 85), LF, Repeat("b", 80)), CRLF, Repeat("c", 81))

\* "let\va=1": a vertical tab as the separator
LineVTab == <<"l", "e", "t", VT, "a", "=", "1">>

PoolLines == {LineLet, LineFunc, LineDup, LineTwoLets, LineBoth, LineUse,
              LineNoBoundary, LineConst, LineVTab, LineSame, <<>>}

PairLines == {LineLet, LineFunc, LineDup, LineUse, <<>>}

\* texts for the single-document specification
QTexts == PoolLines
          \cup {Join(a, LF, b) : a, b \in PairLines}
          \cup {Join(LineLet, CRLF, LineUse), Join(LineUse, CRLF, LineDup),
                Join(Join(LineLet, LF, LineUse), LF, LineDup),
                ExampleVar, ExampleProgram, LongText, Join(LineLet, CR, LineUse)}

\* texts for the two-document specification
\* scans of 1, 0 and 3 symbols
SmallTexts == {LineLet, LineUse, Join(LineBoth, LF, LineLet)}

\* ---------------------------------------------------------------------
\* Request inputs: every line of the document and one past it, every
\* column of the line and one past its end, and -1 for both.
LineSlack == 1

ColSlack == 1

\* columns probed on a line the current text does not have
ClosedCols == 6

NewNames == {<<"z">>, <<>>}

DocLines(u) == IF IsOpen(u) THEN SplitLines(docs[u]) ELSE <<>>

LineInputs(u) == -1..(Len(DocLines(u)) - 1 + LineSlack)

CharInputs(u, l) ==
  -1..((IF 0 <= l /\ l < Len(DocLines(u)) THEN Len(DocLines(u)[l + 1]) ELSE ClosedCols)
       - 1 + ColSlack)

\* ---------------------------------------------------------------------
\* Actions
Init ==
  /\ docs = EmptyMap
  /\ version = EmptyMap
  /\ symbolTable = EmptyMap
  /\ tableProto = ObjectPrototype
  /\ published = EmptyMap
  /\ response = NoResponse

\* didOpen opens a document at version 1; each didChange raises the
\* version by one (a close and reopen restarts it)
NewVersion(u) ==
  IF IsOpen(u)
  THEN version' = [version EXCEPT ![u] = @ + 1]
  ELSE version' = Put(version, u, 1)

\* the editor sends at most MaxVersion - 1 changes per opening
MaxVersion == 2

\* The client is synchronous: it sends its next message only after it has
\* read the response to the previous request.
Idle == response = NoResponse

\* an indexer that appends to the old entry instead of resetting it
DidChangeContentMerge(u, t) ==
  /\ Idle
  /\ NewVersion(u)
  /\ docs' = Put(docs, u, t)
  /\ published' = Put(published, u, ValidateTextDocument(t))
  /\ StoreSymbols(u, DocSymbols(u).v \o ParseDocumentSymbols(u, t))
  /\ UNCHANGED response

\* documents.onDidChangeContent (fired on open and on every change)
DidChangeContent(u, t) ==
  /\ Idle
  /\ NewVersion(u)
  /\ docs' = Put(docs, u, t)
  /\ published' = Put(published, u, ValidateTextDocument(t))
  /\ StoreSymbols(u, ParseDocumentSymbols(u, t))
  /\ UNCHANGED response

\* a close handler that also evicts the symbol table entry
DidCloseEvict(u) ==
  /\ Idle
  /\ IsOpen(u)
  /\ docs' = Remove(docs, u)
  /\ version' = Remove(version, u)
  /\ symbolTable' = Remove(symbolTable, u)
  /\ UNCHANGED <<tableProto, published, response>>

\* didClose: the document manager forgets the document; no server handler
DidClose(u) ==
  /\ Idle
  /\ IsOpen(u)
  /\ docs' = Remove(docs, u)
  /\ version' = Remove(version, u)
  /\ UNCHANGED <<symbolTable, tableProto, published, response>>

Respond(op, u, l, c, n, result) ==
  /\ Idle
  /\ response' = [op |-> op, uri |-> u, line |-> l, character |-> c,
                  newName |-> n, result |-> result]
  /\ UNCHANGED <<docs, version, symbolTable, tableProto, published>>

Hover(u, l, c) == Respond("hover", u, l, c, <<>>, HandleHover(u, l, c))

Definition(u, l, c) == Respond("definition", u, l, c, <<>>, HandleDefinition(u, l, c))

References(u, l, c) == Respond("references", u, l, c, <<>>, HandleReferences(u, l, c))

Rename(u, l, c, n) == Respond("rename", u, l, c, n, HandleRenameRequest(u, l, c, n))

\* getWordAtPosition called on a document of the manager
WordAt(u, l, c) ==
  /\ IsOpen(u)
  /\ Respond("wordAt", u, l, c, <<>>, GetWordAtPosition(docs[u], l, c))

Completion ==
  /\ Idle
  /\ response' = [op |-> "completion", result |-> CompletionItems]
  /\ UNCHANGED <<docs, version, symbolTable, tableProto, published>>

\* the client reads the response
ReadResponse ==
  /\ ~Idle
  /\ response' = NoResponse
  /\ UNCHANGED <<docs, version, symbolTable, tableProto, published>>

\* parseDocumentSymbols / validateTextDocument are exported and called
\* directly (the repository's tests do) with a document object {uri, getText}
ParseDirect(u, t) ==
  /\ Idle
  /\ StoreSymbols(u, ParseDocumentSymbols(u, t))
  /\ response' = [op |-> "parseDocumentSymbols", uri |-> u, text |-> t]
  /\ UNCHANGED <<docs, version, published>>

ValidateDirect(u, t) ==
  /\ Idle
  /\ published' = Put(published, u, ValidateTextDocument(t))
  /\ response' = [op |-> "validateTextDocument", uri |-> u, text |-> t,
                  result |-> ValidateTextDocument(t)]
  /\ UNCHANGED <<docs, version, symbolTable, tableProto>>

\* the server driven by an editor over the protocol
ServerNext(Us, Ts) ==
  \/ \E u \in Us, t \in Ts :
       /\ IF IsOpen(u) THEN version[u] < MaxVersion ELSE TRUE
       /\ DidChangeContent(u, t)
  \/ \E u \in Us : DidClose(u)
  \/ \E u \in Us : \E l \in LineInputs(u) : \E c \in CharInputs(u, l) :
       \/ Hover(u, l, c)
       \/ Definition(u, l, c)
       \/ References(u, l, c)
       \/ \E n \in NewNames : Rename(u, l, c, n)
       \/ WordAt(u, l, c)
  \/ Completion
  \/ ReadResponse

\* the server module used as a library as well (exported functions)
Next ==
  \/ ServerNext(URIs, SmallTexts)
  \/ \E u \in URIs, t \in SmallTexts : ParseDirect(u, t)
  \/ \E u \in URIs, t \in SmallTexts : ValidateDirect(u, t)

Spec == Init /\ [][Next]_vars

\* one document, many texts, protocol events only
QNext == ServerNext({"u1"}, QTexts)

QSpec == Init /\ [][QNext]_vars

\* =====================================================================
\* Properties
SetMin(S) == CHOOSE x \in S : \A y \in S : x <= y

SetMax(S) == CHOOSE x \in S : \A y \in S : x >= y

OpenURIs == DOMAIN docs

\* C1: whenever u is indexed, symbolTable[u] becomes exactly the scan of
\* the text indexed, in scan order (rebuilt, never merged, so a shorter scan
\* leaves nothing of the old entry): on every change event of u (each raises
\* the document's version, even with unchanged text) that is u's current
\* text, on a direct parseDocumentSymbols call the text passed; no step
\* alters the entry of any URI other than the one it indexes.
TableSame(v) ==
  /\ (v \in DOMAIN symbolTable') = (v \in DOMAIN symbolTable)
  /\ v \in DOMAIN symbolTable => symbolTable'[v] = symbolTable[v]

DirectParseOf(v) ==
  response.op = "none" /\ response'.op = "parseDocumentSymbols" /\ response'.uri = v

ChangeEventOf(v) ==
  v \in DOMAIN version' /\ (v \notin DOMAIN version \/ version'[v] # version[v])

C1_IndexReplaces ==
  [][/\ \A v \in URIs :
        /\ ChangeEventOf(v) => symbolTable'[v] = ParseDocumentSymbols(v, docs'[v])
        /\ DirectParseOf(v) => symbolTable'[v] = ParseDocumentSymbols(v, response'.text)
        /\ (~TableSame(v) /\ ~DirectParseOf(v))
             => v \in DOMAIN docs' /\ symbolTable'[v] = ParseDocumentSymbols(v, docs'[v])
     /\ Cardinality({v \in URIs : ~TableSame(v)}) <= 1]_vars

\* u1 indexed with three symbols (two on one line), u2 re-indexed to an
\* empty scan after a change
C1_Witness ==
  /\ OpenURIs = URIs
  /\ symbolTable["u1"] = ParseDocumentSymbols("u1", docs["u1"])
  /\ Len(symbolTable["u1"]) = 3
  /\ symbolTable["u1"][1].range.start.line = symbolTable["u1"][2].range.start.line
  /\ version["u2"] > 1 /\ docs["u2"] = LineUse /\ symbolTable["u2"] = <<>>

\* The binding shape: \b, let|const, whitespace, identifier, whitespace, "="
\* occurs somewhere in the line; likewise the function shape with "(".
AllIn(s, a, b, S) == \A k \in a..(b - 1) : At(s, k) \in S

HasShape(s, kws, term) ==
  \E p \in 0..(Len(s) - 1) :
    /\ (p = 0 \/ At(s, p - 1) \notin WordChars)
    /\ \E kw \in kws :
         /\ p + Len(kw) <= Len(s)
         /\ SubSeq(s, p + 1, p + Len(kw)) = kw
         /\ \E a \in (p + Len(kw) + 1)..Len(s) :
              /\ AllIn(s, p + Len(kw), a, SpaceChars)
              /\ \E b \in (a + 1)..Len(s) :
                   /\ AllIn(s, a, b, IdentChars)
                   /\ \E e \in b..(Len(s) - 1) :
                        AllIn(s, b, e, SpaceChars) /\ At(s, e) = term

SymbolsOn(syms, i, type) ==
  Cardinality({j \in 1..Len(syms) : syms[j].range.start.line = i /\ syms[j].type = type})

\* C2: each line independently yields one Variable iff it has the binding
\* shape and one Function iff it has the function shape (a second occurrence
\* adds nothing); the example program yields exactly myVar and myFunc.
C2_OnePerShapePerLine ==
  \A u \in OpenURIs :
    LET lines == SplitLines(docs[u])
        syms == symbolTable[u]
    IN /\ \A j \in 1..Len(syms) :
            /\ syms[j].range.start.line \in 0..(Len(lines) - 1)
            /\ syms[j].type \in {"variable", "function"}
       /\ \A i \in 0..(Len(lines) - 1) :
            /\ SymbolsOn(syms, i, "variable")
                 = IF HasShape(lines[i + 1], {<<"l", "e", "t">>, <<"c", "o", "n", "s", "t">>}, "=")
                   THEN 1 ELSE 0
            /\ SymbolsOn(syms, i, "function")
                 = IF HasShape(lines[i + 1], {<<"f", "u", "n", "c", "t", "i", "o", "n">>}, "(")
                   THEN 1 ELSE 0
       /\ docs[u] = ExampleProgram =>
            [j \in 1..Len(syms) |-> syms[j].name]
              = << <<"m", "y", "V", "a", "r">>, <<"m", "y", "F", "u", "n", "c">> >>

C2_Witness == IsOpen("u1") /\ docs["u1"] \in {LineTwoLets, LineBoth}

\* C3: every recorded range is on the declaration line, starts at the first
\* occurrence of the name in that line and spans the name's length; the
\* example "let myVar = 10;" records myVar at 0:4-0:9.
C3_RangeAtFirstOccurrence ==
  \A u \in OpenURIs :
    LET lines == SplitLines(docs[u])
        syms == symbolTable[u]
    IN /\ \A j \in 1..Len(syms) :
            LET s == syms[j]
                line == lines[s.range.start.line + 1]
                occ == {k \in 0..(Len(line) - Len(s.name)) :
                          SubSeq(line, k + 1, k + Len(s.name)) = s.name}
            IN /\ s.range.end.line = s.range.start.line
               /\ occ # {}
               /\ s.range.start.character = SetMin(occ)
               /\ s.range.end.character = s.range.start.character + Len(s.name)
               /\ SubSeq(line, s.range.start.character + 1, s.range.end.character) = s.name
       /\ docs[u] = ExampleVar =>
            syms = << [name |-> <<"m", "y", "V", "a", "r">>,
                       range |-> [start |-> [line |-> 0, character |-> 4],
                                  end |-> [line |-> 0, character |-> 9]],
                       type |-> "variable", docUri |-> u] >>

C3_Witness == IsOpen("u1") /\ docs["u1"] = LineDup

InBounds(text, l, c) ==
  LET lines == SplitLines(text)
  IN 0 <= l /\ l < Len(lines) /\ 0 <= c /\ c < Len(lines[l + 1])

\* C4: wordAt returns null, never a word and never an exception, whenever
\* the line or the character is outside [0, lineCount) / [0, lineLength).
C4_OutOfBoundsNull ==
  (response.op = "wordAt" /\ ~InBounds(docs[response.uri], response.line, response.character))
    => response.result = Null

\* C5: for an in-bounds position wordAt returns the substring [L, R) with L
\* the smallest index whose run up to the position is identifier characters
\* and R the largest such index from the position on.
C5_WordBounds ==
  (response.op = "wordAt" /\ InBounds(docs[response.uri], response.line, response.character))
    => LET lt == SplitLines(docs[response.uri])[response.line + 1]
           c == response.character
           L == SetMin({l \in 0..c : AllIn(lt, l, c, IdentChars)})
           R == SetMax({r \in c..Len(lt) : AllIn(lt, c, r, IdentChars)})
       IN /\ response.result = Word(SubSeq(lt, L + 1, R))
          /\ (docs[response.uri] = ExampleVar /\ response.line = 0 /\ c = 6)
               => response.result = Word(<<"m", "y", "V", "a", "r">>)

C5_Witness ==
  /\ response.op = "wordAt"
  /\ docs[response.uri] = ExampleVar
  /\ response.line = 0 /\ response.character = 6

\* the word the handlers resolve for the latest request
RespWord == GetWordAtPosition(docs[response.uri], response.line, response.character)

\* C6: when wordAt yields null or "" at the position, definition answers
\* null, references an empty list and rename null: an empty word is never
\* used as a zero-length name.
C6_EmptyWordNoMatch ==
  (/\ response.op \in {"definition", "references", "rename"}
   /\ IsOpen(response.uri)
   /\ RespWord \in {Null, Word(<<>>)})
    => response.result = CASE response.op = "definition" -> Null
                           [] response.op = "references" -> Locations(<<>>)
                           [] response.op = "rename" -> Null

C6_Witness ==
  /\ response.op = "references"
  /\ IsOpen(response.uri)
  /\ RespWord = Word(<<>>)

\* containment of a position in a declaration range, as the claim states it
Contains(l, c, range) ==
  /\ range.start.line <= l /\ l <= range.end.line
  /\ l = range.start.line => c >= range.start.character
  /\ l = range.end.line => c <= range.end.character

\* C7: hover reports the name and kind of the first symbol of
\* symbolTable[uri] whose range contains the position, else null (also when
\* the uri has no entry).
C7_HoverFirstContaining ==
  response.op = "hover" =>
    LET syms == IF response.uri \in DOMAIN symbolTable THEN symbolTable[response.uri] ELSE <<>>
        hit == {j \in 1..Len(syms) : Contains(response.line, response.character, syms[j].range)}
    IN response.result =
         IF hit = {} THEN Null
         ELSE [kind |-> "hover", name |-> syms[SetMin(hit)].name, type |-> syms[SetMin(hit)].type]

\* a hover at a position inside two symbols' ranges (a variable and a
\* function), answered with the first of them
C7_Witness ==
  /\ response.op = "hover"
  /\ response.uri \in DOMAIN symbolTable
  /\ LET syms == symbolTable[response.uri]
     IN \E i, j \in 1..Len(syms) :
          /\ i < j
          /\ Contains(response.line, response.character, syms[i].range)
          /\ Contains(response.line, response.character, syms[j].range)
          /\ syms[i].type # syms[j].type
          /\ response.result.kind = "hover"
          /\ response.result.type = syms[i].type

\* C8: definition returns the location (owning uri, range) of the first
\* symbol of symbolTable[uri] named like the word under the position, and
\* null when no symbol has that name (or the document is not open); at the
\* usage of myVar on line 2 of the example program it is the line 0 declaration.
C8_DefinitionFirstByName ==
  (response.op = "definition" /\ (IsOpen(response.uri) => RespWord # Throw)) =>
    IF ~IsOpen(response.uri) THEN response.result = Null
    ELSE LET syms == symbolTable[response.uri]
             w == RespWord
             hit == {j \in 1..Len(syms) : w.kind = "word" /\ syms[j].name = w.w}
         IN /\ response.result =
                 IF hit = {} THEN Null
                 ELSE [kind |-> "location", uri |-> syms[SetMin(hit)].docUri,
                       range |-> syms[SetMin(hit)].range]
            /\ (docs[response.uri] = ExampleProgram /\ response.line = 2
                /\ response.character \in 14..18)
                 => /\ response.result.uri = response.uri
                    /\ response.result.range.start.line = 0

C8_Witness ==
  /\ response.op = "definition"
  /\ IsOpen(response.uri)
  /\ docs[response.uri] = ExampleProgram
  /\ response.line = 2 /\ response.character = 16

\* the lines of the text holding w, and w's first column on a line
HoldsAt(line, w, k) == SubSeq(line, k + 1, k + Len(w)) = w

FirstCol(line, w) == SetMin({k \in 0..(Len(line) - Len(w)) : HoldsAt(line, w, k)})

MatchingLines(lines, w) ==
  {i \in 0..(Len(lines) - 1) : \E k \in 0..(Len(lines[i + 1]) - Len(w)) : HoldsAt(lines[i + 1], w, k)}

\* C9: for a non-empty word, references lists one location per line that
\* contains the word, at its first occurrence, in line order, and includes
\* the line of every declaration of that name.
C9_ReferencesPerLine ==
  (/\ response.op = "references" /\ IsOpen(response.uri)
   /\ RespWord # Throw /\ Truthy(RespWord)) =>
    LET lines == SplitLines(docs[response.uri])
        w == RespWord.w
        locs == response.result.locs
        syms == symbolTable[response.uri]
    IN /\ response.result.kind = "locations"
       /\ Len(locs) = Cardinality(MatchingLines(lines, w))
       /\ \A j \in 1..Len(locs) :
            /\ locs[j].uri = response.uri
            /\ locs[j].range.start.line \in MatchingLines(lines, w)
            /\ j > 1 => locs[j - 1].range.start.line < locs[j].range.start.line
            /\ locs[j].range.end.line = locs[j].range.start.line
            /\ locs[j].range.start.character = FirstCol(lines[locs[j].range.start.line + 1], w)
            /\ locs[j].range.end.character = locs[j].range.start.character + Len(w)
       /\ \A s \in 1..Len(syms) :
            syms[s].name = w =>
              \E j \in 1..Len(locs) : locs[j].range.start.line = syms[s].range.start.line

C9_Witness ==
  /\ response.op = "references"
  /\ response.result.kind = "locations"
  /\ Len(response.result.locs) >= 2
  /\ \E j \in 1..Len(response.result.locs) : response.result.locs[j].range.start.character = 0

\* C10: rename of a non-empty word to a non-empty name edits only the source
\* uri, one edit per references location with the same range, each with the
\* new name as text; a missing old word or new name gives null.
C10_RenameMatchesReferences ==
  (/\ response.op = "rename" /\ IsOpen(response.uri) /\ RespWord # Throw) =>
    IF ~Truthy(RespWord) \/ response.newName = <<>>
    THEN response.result = Null
    ELSE LET refs == HandleReferences(response.uri, response.line, response.character).locs
             edits == response.result.changes.edits
         IN /\ response.result.kind = "edit"
            /\ response.result.changes.uri = response.uri
            /\ Len(edits) = Len(refs)
            /\ \A j \in 1..Len(edits) :
                 /\ edits[j].range = refs[j].range
                 /\ edits[j].newText = response.newName

C10_Witness ==
  /\ response.op = "rename"
  /\ response.result.kind = "edit"
  /\ Len(response.result.changes.edits) >= 2
  /\ \E j \in 1..Len(response.result.changes.edits) :
       response.result.changes.edits[j].range.start.character = 0

\* C11: the diagnostics published for an open document are one Warning per
\* line longer than 80, ranging over [80, lineLength) of that line, in line
\* order, and nothing for lines of length <= 80 (a line of length 85 gives
\* 80..85); each change re-derives the whole list from the new text.
LongLines(lines) == {i \in 0..(Len(lines) - 1) : Len(lines[i + 1]) > 80}

C11_LongLineWarnings ==
  /\ [](\A u \in DOMAIN docs :
         LET lines == SplitLines(docs[u])
             d == published[u]
         IN /\ Len(d) = Cardinality(LongLines(lines))
            /\ \A j \in 1..Len(d) :
                 /\ d[j].severity = 2
                 /\ d[j].range.start.line \in LongLines(lines)
                 /\ d[j].range.end.line = d[j].range.start.line
                 /\ j > 1 => d[j - 1].range.start.line < d[j].range.start.line
                 /\ d[j].range.start.character = 80
                 /\ d[j].range.end.character = Len(lines[d[j].range.start.line + 1])
            /\ \A i \in 0..(Len(lines) - 1) :
                 Len(lines[i + 1]) = 85 =>
                   \E j \in 1..Len(d) : d[j].range = [start |-> [line |-> i, character |-> 80],
                                                      end |-> [line |-> i, character |-> 85]])
  /\ [][\A u \in URIs :
          (u \in DOMAIN docs' /\ (u \notin DOMAIN docs \/ docs'[u] # docs[u]))
            => u \in DOMAIN published' /\ Len(published'[u]) = Cardinality(LongLines(SplitLines(docs'[u])))]_vars

C11_Witness ==
  /\ IsOpen("u1")
  /\ docs["u1"] = LongText
  /\ Len(published["u1"]) = 2

\* Lines of a text when each "\n", each "\r\n" and each bare "\r" ends
\* exactly one line.
TermBreaks(s) ==
  {i \in 1..Len(s) : s[i] = "\n" \/ (s[i] = "\r" /\ (i = Len(s) \/ s[i + 1] # "\n"))}

TerminatorLines(s) ==
  LET idx == TermBreaks(s)
      b == [k \in 1..Cardinality(idx) |->
              CHOOSE i \in idx : Cardinality({j \in idx : j < i}) = k - 1]
      n == Len(b) + 1
      from(k) == IF k = 1 THEN 1 ELSE b[k - 1] + 1
      to(k) == IF k = n THEN Len(s)
               ELSE IF s[b[k]] = "\n" /\ b[k] > 1 /\ s[b[k] - 1] = "\r" THEN b[k] - 2
               ELSE b[k] - 1
  IN [k \in 1..n |-> SubSeq(s, from(k), to(k))]

\* C12: every operation that splits a document into lines (indexing,
\* diagnostics, wordAt, references, rename) sees one line break per
\* terminator, bare or CR LF, so all of them number the lines alike.
C12_OneBreakPerTerminator ==
  \A u \in DOMAIN docs :
    /\ SplitLines(docs[u]) = TerminatorLines(docs[u])
    /\ \A j \in 1..Len(symbolTable[u]) :
         symbolTable[u][j].range.start.line < Len(TerminatorLines(docs[u]))

\* C13: a symbolTable entry, once created, is never removed; after its
\* document is closed, hover inside a recorded range still answers from the
\* retained entry, while definition, references and rename answer null or [].
C13_TableOutlivesClose ==
  /\ [][\A u \in URIs : u \in DOMAIN symbolTable => u \in DOMAIN symbolTable']_vars
  /\ [](response.op = "hover" /\ ~IsOpen(response.uri) =>
        LET syms == IF response.uri \in DOMAIN symbolTable THEN symbolTable[response.uri] ELSE <<>>
            hit == {j \in 1..Len(syms) : Contains(response.line, response.character, syms[j].range)}
        IN hit # {} =>
             response.result = [kind |-> "hover", name |-> syms[SetMin(hit)].name,
                                type |-> syms[SetMin(hit)].type])
  /\ [](response.op \in {"definition", "references", "rename"} /\ ~IsOpen(response.uri) =>
        response.result = IF response.op = "references" THEN Locations(<<>>) ELSE Null)

C13_Witness ==
  /\ response.op = "hover"
  /\ ~IsOpen(response.uri)
  /\ response.result # Null

====
